---------------------------- MODULE Spec2Model ----------------------------
(***************************************************************************)
(* A model of crawl_bulk_api.py: the request generator create_requests,    *)
(* the batcher batch, and the orchestration loop of __main__.              *)
(*                                                                         *)
(* Python generators are modelled as coroutines.  `turn` names the frame   *)
(* that is running; a frame that calls next() on a generator hands the     *)
(* turn to it, and a generator that yields (or returns) hands the turn     *)
(* back together with `ret`, the value yielded (or StopIteration).         *)
(*                                                                         *)
(* Strings are sequences of one-character strings, so that formatting is   *)
(* the concatenation the code performs and not an opaque pairing.          *)
(*                                                                         *)
(* Three programs are modelled, chosen by `prog`:                          *)
(*   "main"     the script: stdin -> create_requests -> batch -> POST loop *)
(*   "doctest"  list(batch(iterable, batch_size)) of batch's docstring     *)
(*   "requests" list(create_requests(ty_ids, widgets, languages))          *)
(***************************************************************************)
EXTENDS Integers, Sequences, FiniteSets

VARIABLES
    prog,           \* which program runs
    turn,           \* the frame that is running
    ret,            \* what the last yield / return handed to the caller
    stdin,          \* the lines of standard input
    stdin_pos,      \* number of lines consumed from stdin
    reads,          \* history: the indices of the lines read, in order
    widgets,        \* args.widgets
    languages,      \* args.languages
    ty_id,          \* create_requests: loop variable of the outer loop
    wi,             \* create_requests: position in widgets
    li,             \* create_requests: position in languages
    gpc,            \* create_requests: where the generator is suspended
    yielded,        \* history: the requests create_requests has yielded
    iterable,       \* doctest: the list handed to batch
    it_pos,         \* doctest: position of the list iterator
    batch_size,     \* batch: its batch_size argument
    buffer,         \* batch: its local buffer
    bpc,            \* batch: where the generator is suspended
    pulled,         \* history: the elements batch has pulled from its input
    chunks,         \* history: the chunks batch has yielded
    lpc,            \* list(): position of the collecting loop
    collected,      \* list(): the list being built
    mpc,            \* __main__: position
    request_list,   \* __main__: loop variable of the batch loop
    bulk_res,       \* __main__: the parsed bulk response
    zi,             \* __main__: number of zip pairs consumed
    stdout,         \* lines printed on standard output
    log,            \* records logged on standard error
    codes,          \* history: outer code of every bulk response received
    out_mark,       \* history: Len(stdout) when the current batch arrived
    log_mark        \* history: Len(log) when the current batch arrived

vars == << prog, turn, ret, stdin, stdin_pos, reads, widgets, languages,
           ty_id, wi, li, gpc, yielded, iterable, it_pos, batch_size,
           buffer, bpc, pulled, chunks, lpc, collected, mpc, request_list,
           bulk_res, zi, stdout, log, codes, out_mark, log_mark >>

genVars  == << stdin_pos, reads, ty_id, wi, li, gpc, yielded >>
iterVars == << it_pos >>
batVars  == << buffer, bpc, pulled, chunks >>
listVars == << lpc, collected >>
mainVars == << mpc, request_list, bulk_res, zi, stdout, log, codes,
               out_mark, log_mark >>
argVars  == << prog, stdin, widgets, languages, iterable, batch_size >>

---------------------------------------------------------------------------
(* Bounds of the model *)

MaxIds == 2          \* "requests": at most this many identifiers
MaxWidgets == 2      \* "requests": at most this many widgets
MaxLanguages == 2    \* "requests": at most this many languages
MaxRequests == 8     \* "requests": at most this many requests to generate
MaxLen == 4          \* "doctest": longest input list over {0, 1}
RangeMax == 7        \* "doctest": range(0) .. range(RangeMax) are inputs
MaxBatchSize == 4    \* "doctest": largest batch_size
MaxNonPositive == 1  \* "doctest": batch_size goes down to -MaxNonPositive
MaxLines == 2        \* "main": at most this many lines on stdin
BatchLimit == 2      \* "main": the batch size (100 in the script, scaled down)

(* The success code of the Bulk API, at both levels of a response *)
OK_CODE == 200

---------------------------------------------------------------------------
(* Helpers *)

Min(a, b) == IF a <= b THEN a ELSE b

SeqsUpTo(S, n) == UNION { [1..m -> S] : m \in 0..n }

NonEmptySeqsUpTo(S, n) == UNION { [1..m -> S] : m \in 1..n }

Range(n) == [i \in 1..n |-> i - 1]

NL == "\n"

(* str.rstrip("\n"): drop every trailing newline *)
RECURSIVE RStrip(_)
RStrip(s) ==
    IF Len(s) > 0 /\ s[Len(s)] = NL
    THEN RStrip(SubSeq(s, 1, Len(s) - 1))
    ELSE s


---------------------------------------------------------------------------
(* Strings of the script, character by character *)

HotelsPart == << "/", "h", "o", "t", "e", "l", "s", "/" >>

SlashPart == << "/" >>

JsonLangPart == << ".", "j", "s", "o", "n", "?", "l", "a", "n", "g", "=" >>

OkPart == << "O", "k", ":", " " >>

(* "/hotels/{ty_id}/{language}.json?lang={widget}": the arguments swapped *)
RequestSwapped(id, widget, language) ==
    HotelsPart \o id \o SlashPart \o language \o JsonLangPart \o widget

(* "/hotels/{ty_id}/{widget}.json?lang={language}".format(...) *)
Request(id, widget, language) ==
    HotelsPart \o id \o SlashPart \o widget \o JsonLangPart \o language

(* "Ok: {}".format(request) *)
OkLine(request) == OkPart \o request

---------------------------------------------------------------------------
(* Inputs *)

(* identifiers, widgets and languages of the "requests" program; some hold *)
(* the separators of the request format                                    *)
IdValues == { << "h" >>, << "g" >>, << "h", "/", "s" >> }

WidgetValues ==
    { << "t" >>, << "s", "/", "t" >>, << "t" >> \o JsonLangPart \o << "e" >> }

LanguageValues == { << "n" >>, << "e" >> \o JsonLangPart \o << "n" >> }

(* identifiers, widgets and languages of the "main" program *)
MainIdValues == { << "h", "1" >>, << "h", "2" >> }

Seal == << "s", "e", "a", "l" >>

TopsFlops == << "t", "o", "p", "s", "_", "f", "l", "o", "p", "s" >>

MainWidgets == { << Seal >>, << Seal, TopsFlops >> }

MainLanguages == { << << "e", "n" >> >> }

(* The lines of a text holding the identifiers `ids`, one per line; the    *)
(* last line ends in a newline iff `nl`                                    *)
StdinOf(ids, nl) ==
    [i \in 1..Len(ids) |->
        IF i < Len(ids) \/ nl THEN ids[i] \o << NL >> ELSE ids[i]]

(* The identifiers create_requests receives: the lines, stripped *)
TyIds == [i \in 1..Len(stdin) |-> RStrip(stdin[i])]

(* What a yield or a return hands to the frame that called next() *)
Value(v) == [kind |-> "value", val |-> v]

StopIteration == [kind |-> "stop", val |-> << >>]

NoRet == [kind |-> "none", val |-> << >>]

NoResponse == [code |-> 0, response_list |-> << >>]

(* The bulk responses the API may give to a batch of n requests: an outer  *)
(* failure, or an outer success with a response list that may be shorter   *)
(* or longer than the batch                                                *)
InnerCodes == { 200, 404 }

Responses(n) ==
    { [code |-> 500, response_list |-> << >>] }
    \cup { [code |-> 200, response_list |-> r] : r \in SeqsUpTo(InnerCodes, n + 1) }

---------------------------------------------------------------------------
(* Initial states *)

GenInit ==
    /\ stdin_pos = 0 /\ reads = << >> /\ ty_id = << >>
    /\ wi = 0 /\ li = 0 /\ yielded = << >>

BatchInitVars ==
    /\ buffer = << >> /\ pulled = << >> /\ chunks = << >>

MainIdle ==
    /\ request_list = << >> /\ bulk_res = NoResponse /\ zi = 0
    /\ stdout = << >> /\ log = << >> /\ codes = << >>
    /\ out_mark = 0 /\ log_mark = 0

(* python crawl_bulk_api.py --api_key K [--widgets ...] [--languages ...] *)
Init ==
    /\ prog = "main" /\ turn = "main" /\ ret = NoRet
    /\ \E ids \in SeqsUpTo(MainIdValues, MaxLines), nl \in BOOLEAN :
          stdin = StdinOf(ids, nl \/ Len(ids) = 0)
    /\ widgets \in MainWidgets
    /\ languages \in MainLanguages
    /\ GenInit /\ gpc = "for_ty_id"
    /\ iterable = << >> /\ it_pos = 0
    /\ batch_size = BatchLimit
    /\ BatchInitVars /\ bpc = "start"
    /\ lpc = "idle" /\ collected = << >>
    /\ MainIdle /\ mpc = "start"

(* list(batch(iterable, batch_size)) *)
InitBatch ==
    /\ prog = "doctest" /\ turn = "list" /\ ret = NoRet
    /\ stdin = << >> /\ widgets = << >> /\ languages = << >>
    /\ GenInit /\ gpc = "idle"
    /\ iterable \in SeqsUpTo({0, 1}, MaxLen) \cup { Range(n) : n \in 0..RangeMax }
    /\ it_pos = 0
    /\ batch_size \in (0 - MaxNonPositive)..MaxBatchSize
    /\ BatchInitVars /\ bpc = "start"
    /\ lpc = "for" /\ collected = << >>
    /\ MainIdle /\ mpc = "idle"

(* list(create_requests(ty_ids, widgets, languages)) *)
InitRequests ==
    /\ prog = "requests" /\ turn = "list" /\ ret = NoRet
    /\ \E ids \in NonEmptySeqsUpTo(IdValues, MaxIds) : stdin = StdinOf(ids, TRUE)
    /\ widgets \in NonEmptySeqsUpTo(WidgetValues, MaxWidgets)
    /\ languages \in NonEmptySeqsUpTo(LanguageValues, MaxLanguages)
    /\ Len(stdin) * Len(widgets) * Len(languages) <= MaxRequests
    /\ GenInit /\ gpc = "for_ty_id"
    /\ iterable = << >> /\ it_pos = 0
    /\ batch_size = 0
    /\ BatchInitVars /\ bpc = "idle"
    /\ lpc = "for" /\ collected = << >>
    /\ MainIdle /\ mpc = "idle"

(* Who runs when a generator yields, and whom a consumer calls *)
RequestsConsumer == IF prog = "main" THEN "batch" ELSE "list"

BatchSource == IF prog = "main" THEN "requests" ELSE "iter"

BatchConsumer == IF prog = "main" THEN "main" ELSE "list"

ListTarget == IF prog = "doctest" THEN "batch" ELSE "requests"

---------------------------------------------------------------------------
(* ty_ids and create_requests *)

(* The inner loop starts where the previous one stopped: what happens when *)
(* `languages` is an iterator instead of a list                            *)
LanguageLoopStartKept(l) == l

(* `for language in languages` iterates the list from its start each time  *)
LanguageLoopStart(l) == 0

(* `for ty_id in ty_ids`: next(ty_ids) reads one line of stdin and strips  *)
(* it; at end of input the generator returns                               *)
ReqForTyId ==
    /\ turn = "requests" /\ gpc = "for_ty_id"
    /\ IF stdin_pos < Len(stdin)
       THEN /\ ty_id' = RStrip(stdin[stdin_pos + 1])
            /\ stdin_pos' = stdin_pos + 1
            /\ reads' = Append(reads, stdin_pos + 1)
            /\ wi' = 0
            /\ gpc' = "for_widget"
            /\ UNCHANGED << turn, ret >>
       ELSE /\ gpc' = "done"
            /\ ret' = StopIteration
            /\ turn' = RequestsConsumer
            /\ UNCHANGED << ty_id, stdin_pos, reads, wi >>
    /\ UNCHANGED << li, yielded >>
    /\ UNCHANGED << argVars, iterVars, batVars, listVars, mainVars >>

(* `for widget in widgets` *)
ReqForWidget ==
    /\ turn = "requests" /\ gpc = "for_widget"
    /\ IF wi < Len(widgets)
       THEN /\ wi' = wi + 1
            /\ li' = LanguageLoopStart(li)
            /\ gpc' = "for_language"
       ELSE /\ gpc' = "for_ty_id"
            /\ UNCHANGED << wi, li >>
    /\ UNCHANGED << turn, ret, stdin_pos, reads, ty_id, yielded >>
    /\ UNCHANGED << argVars, iterVars, batVars, listVars, mainVars >>

(* `for language in languages: yield "...".format(...)` *)
ReqForLanguage ==
    /\ turn = "requests" /\ gpc = "for_language"
    /\ IF li < Len(languages)
       THEN LET request == Request(ty_id, widgets[wi], languages[li + 1])
            IN  /\ li' = li + 1
                /\ yielded' = Append(yielded, request)
                /\ ret' = Value(request)
                /\ turn' = RequestsConsumer
                /\ UNCHANGED gpc
       ELSE /\ gpc' = "for_widget"
            /\ UNCHANGED << li, yielded, ret, turn >>
    /\ UNCHANGED << stdin_pos, reads, ty_id, wi >>
    /\ UNCHANGED << argVars, iterVars, batVars, listVars, mainVars >>

---------------------------------------------------------------------------
(* The iterator of a list, and list() collecting a generator *)

(* next() on the iterator of `iterable` *)
IterNext ==
    /\ turn = "iter"
    /\ IF it_pos < Len(iterable)
       THEN /\ ret' = Value(iterable[it_pos + 1])
            /\ it_pos' = it_pos + 1
       ELSE /\ ret' = StopIteration
            /\ UNCHANGED it_pos
    /\ turn' = "batch"
    /\ UNCHANGED << argVars, genVars, batVars, listVars, mainVars >>

(* list(g) asks g for its next element *)
ListNext ==
    /\ turn = "list" /\ lpc = "for"
    /\ lpc' = "recv"
    /\ turn' = ListTarget
    /\ UNCHANGED << ret, collected >>
    /\ UNCHANGED << argVars, genVars, iterVars, batVars, mainVars >>

(* list(g) appends what g yielded, or stops when g is exhausted *)
ListRecv ==
    /\ turn = "list" /\ lpc = "recv"
    /\ IF ret.kind = "stop"
       THEN /\ lpc' = "done"
            /\ UNCHANGED collected
       ELSE /\ collected' = Append(collected, ret.val)
            /\ lpc' = "for"
    /\ UNCHANGED << turn, ret >>
    /\ UNCHANGED << argVars, genVars, iterVars, batVars, mainVars >>

---------------------------------------------------------------------------
(* batch *)

(* `if len(buffer) > batch_size`: off by one *)
BufferFullStrict(buf, n) == Len(buf) > n

(* `if len(buffer) >= batch_size` *)
BufferFull(buf, n) == Len(buf) >= n

(* the element is put in front of the buffer *)
BufferPrepend(buf, el) == << el >> \o buf

(* `buffer.append(el)` *)
BufferAppend(buf, el) == Append(buf, el)

(* the remainder is dropped *)
BufferLeftNever(buf) == FALSE

(* `if buffer:` after the loop *)
BufferLeft(buf) == Len(buf) > 0

(* `buffer = []` on the first call of next() *)
BatchStart ==
    /\ turn = "batch" /\ bpc = "start"
    /\ buffer' = << >>
    /\ bpc' = "for"
    /\ UNCHANGED << turn, ret, pulled, chunks >>
    /\ UNCHANGED << argVars, genVars, iterVars, listVars, mainVars >>

(* `for el in iterable`: ask the input for its next element *)
BatchFor ==
    /\ turn = "batch" /\ bpc = "for"
    /\ bpc' = "recv"
    /\ turn' = BatchSource
    /\ UNCHANGED << ret, buffer, pulled, chunks >>
    /\ UNCHANGED << argVars, genVars, iterVars, listVars, mainVars >>

(* the loop body: append, and yield the buffer once it is full; or leave   *)
(* the loop when the input is exhausted                                    *)
BatchRecv ==
    /\ turn = "batch" /\ bpc = "recv"
    /\ IF ret.kind = "stop"
       THEN /\ bpc' = "after"
            /\ UNCHANGED << turn, ret, buffer, pulled, chunks >>
       ELSE LET buf == BufferAppend(buffer, ret.val)
            IN  /\ buffer' = buf
                /\ pulled' = Append(pulled, ret.val)
                /\ IF BufferFull(buf, batch_size)
                   THEN /\ chunks' = Append(chunks, buf)
                        /\ ret' = Value(buf)
                        /\ turn' = BatchConsumer
                        /\ bpc' = "yielded"
                   ELSE /\ bpc' = "for"
                        /\ UNCHANGED << turn, ret, chunks >>
    /\ UNCHANGED << argVars, genVars, iterVars, listVars, mainVars >>

(* resumed after `yield buffer` in the loop: `buffer = []` *)
BatchResume ==
    /\ turn = "batch" /\ bpc = "yielded"
    /\ buffer' = << >>
    /\ bpc' = "for"
    /\ UNCHANGED << turn, ret, pulled, chunks >>
    /\ UNCHANGED << argVars, genVars, iterVars, listVars, mainVars >>

(* after the loop: `if buffer: yield buffer`, else the generator returns *)
BatchAfter ==
    /\ turn = "batch" /\ bpc = "after"
    /\ IF BufferLeft(buffer)
       THEN /\ chunks' = Append(chunks, buffer)
            /\ ret' = Value(buffer)
            /\ bpc' = "last"
       ELSE /\ ret' = StopIteration
            /\ bpc' = "done"
            /\ UNCHANGED chunks
    /\ turn' = BatchConsumer
    /\ UNCHANGED << buffer, pulled >>
    /\ UNCHANGED << argVars, genVars, iterVars, listVars, mainVars >>

(* resumed after the last `yield buffer`: the generator returns *)
BatchReturn ==
    /\ turn = "batch" /\ bpc = "last"
    /\ ret' = StopIteration
    /\ bpc' = "done"
    /\ turn' = BatchConsumer
    /\ UNCHANGED << buffer, pulled, chunks >>
    /\ UNCHANGED << argVars, genVars, iterVars, listVars, mainVars >>

---------------------------------------------------------------------------
(* __main__ *)

CommaSpace == << ",", " " >>

(* ", ".join(strings) *)
RECURSIVE Join(_)
Join(strings) ==
    IF Len(strings) = 0 THEN << >>
    ELSE IF Len(strings) = 1 THEN strings[1]
    ELSE strings[1] \o CommaSpace \o Join(Tail(strings))

(* logging.info("Crawling widgets %s in languages %s from TrustYou API") *)
CrawlingInfo(ws, ls) ==
    [level |-> "INFO", msg |-> "Crawling widgets %s in languages %s from TrustYou API",
     request |-> << >>, code |-> 0, widgets |-> Join(ws), languages |-> Join(ls)]

(* logging.warning("Bulk request failed with error %s", code) *)
BulkWarning(code) ==
    [level |-> "WARNING", msg |-> "Bulk request failed with error %s",
     request |-> << >>, code |-> code, widgets |-> << >>, languages |-> << >>]

(* logging.warning("Widget request %s failed with error %s", request, code) *)
WidgetWarning(request, code) ==
    [level |-> "WARNING", msg |-> "Widget request %s failed with error %s",
     request |-> request, code |-> code, widgets |-> << >>, languages |-> << >>]

(* the batch-level check never fires *)
BulkFailedNever(res) == FALSE

(* `if bulk_res["meta"]["code"] != 200` *)
BulkFailed(res) == res.code # OK_CODE

(* only codes below 200 count as failures *)
RequestFailedBelow(code) == code < OK_CODE

(* `if response["meta"]["code"] != 200` *)
RequestFailed(code) == code # OK_CODE

(* a length check that gives up on a mismatched response list *)
PairCountStrict(n, m) == IF n = m THEN n ELSE 0

(* zip(request_list, response_list) stops with the shorter of the two *)
PairCount(n, m) == Min(n, m)

(* `break`: the first failed request ends the batch *)
AfterRequestFailureBreak == "for"

(* `continue` in the per-request loop: on to the next pair *)
AfterRequestFailure == "zip"

(* logging.basicConfig, parse_args, logging.info, and the lazy pipeline *)
MainStart ==
    /\ turn = "main" /\ mpc = "start"
    /\ log' = Append(log, CrawlingInfo(widgets, languages))
    /\ mpc' = "for"
    /\ UNCHANGED << turn, ret, request_list, bulk_res, zi, stdout, codes,
                    out_mark, log_mark >>
    /\ UNCHANGED << argVars, genVars, iterVars, batVars, listVars >>

(* `for request_list in batched_requests`: ask batch for the next chunk *)
MainFor ==
    /\ turn = "main" /\ mpc = "for"
    /\ mpc' = "recv"
    /\ turn' = "batch"
    /\ UNCHANGED << ret, request_list, bulk_res, zi, stdout, log, codes,
                    out_mark, log_mark >>
    /\ UNCHANGED << argVars, genVars, iterVars, batVars, listVars >>

(* the loop variable is bound to the chunk, or the loop (and the script)   *)
(* ends when batch is exhausted                                            *)
MainRecv ==
    /\ turn = "main" /\ mpc = "recv"
    /\ IF ret.kind = "stop"
       THEN /\ mpc' = "done"
            /\ UNCHANGED << request_list, out_mark, log_mark >>
       ELSE /\ request_list' = ret.val
            /\ out_mark' = Len(stdout)
            /\ log_mark' = Len(log)
            /\ mpc' = "post"
    /\ UNCHANGED << turn, ret, bulk_res, zi, stdout, log, codes >>
    /\ UNCHANGED << argVars, genVars, iterVars, batVars, listVars >>

(* post(...).json(): the API answers with some bulk response *)
MainPost ==
    /\ turn = "main" /\ mpc = "post"
    /\ \E res \in Responses(Len(request_list)) :
          /\ bulk_res' = res
          /\ codes' = Append(codes, res.code)
    /\ mpc' = "check"
    /\ UNCHANGED << turn, ret, request_list, zi, stdout, log, out_mark, log_mark >>
    /\ UNCHANGED << argVars, genVars, iterVars, batVars, listVars >>

(* post(...) or .json() raises: nothing catches it, the script ends *)
MainPostFault ==
    /\ turn = "main" /\ mpc = "post"
    /\ mpc' = "crashed"
    /\ UNCHANGED << turn, ret, request_list, bulk_res, zi, stdout, log, codes,
                    out_mark, log_mark >>
    /\ UNCHANGED << argVars, genVars, iterVars, batVars, listVars >>

(* the batch-level check: warn and `continue`, or enter the zip loop *)
MainCheck ==
    /\ turn = "main" /\ mpc = "check"
    /\ IF BulkFailed(bulk_res)
       THEN /\ log' = Append(log, BulkWarning(bulk_res.code))
            /\ mpc' = "for"
            /\ UNCHANGED zi
       ELSE /\ zi' = 0
            /\ mpc' = "zip"
            /\ UNCHANGED log
    /\ UNCHANGED << turn, ret, request_list, bulk_res, stdout, codes,
                    out_mark, log_mark >>
    /\ UNCHANGED << argVars, genVars, iterVars, batVars, listVars >>

(* one turn of `for request, response in zip(...)`: warn or print; the     *)
(* loop ends when zip is exhausted                                         *)
MainZip ==
    /\ turn = "main" /\ mpc = "zip"
    /\ IF zi < PairCount(Len(request_list), Len(bulk_res.response_list))
       THEN LET request == request_list[zi + 1]
                code == bulk_res.response_list[zi + 1]
            IN  /\ zi' = zi + 1
                /\ IF RequestFailed(code)
                   THEN /\ log' = Append(log, WidgetWarning(request, code))
                        /\ mpc' = AfterRequestFailure
                        /\ UNCHANGED stdout
                   ELSE /\ stdout' = Append(stdout, OkLine(request))
                        /\ mpc' = "zip"
                        /\ UNCHANGED log
       ELSE /\ mpc' = "for"
            /\ UNCHANGED << zi, stdout, log >>
    /\ UNCHANGED << turn, ret, request_list, bulk_res, codes, out_mark, log_mark >>
    /\ UNCHANGED << argVars, genVars, iterVars, batVars, listVars >>

---------------------------------------------------------------------------
(* Specifications *)

GenNext == ReqForTyId \/ ReqForWidget \/ ReqForLanguage

BatchNext ==
    BatchStart \/ BatchFor \/ BatchRecv \/ BatchResume \/ BatchAfter \/ BatchReturn

ListStep == ListNext \/ ListRecv

MainNext ==
    MainStart \/ MainFor \/ MainRecv \/ MainPost \/ MainPostFault \/ MainCheck \/ MainZip

(* the script *)
Next == MainNext \/ BatchNext \/ GenNext

Spec == Init /\ [][Next]_vars

(* list(batch(iterable, batch_size)) *)
NextBatch == ListStep \/ BatchNext \/ IterNext

SpecBatch == InitBatch /\ [][NextBatch]_vars

(* list(create_requests(ty_ids, widgets, languages)) *)
NextRequests == ListStep \/ GenNext

SpecRequests == InitRequests /\ [][NextRequests]_vars

---------------------------------------------------------------------------
(* Vocabulary of the properties *)

HasPrefix(s, p) == Len(s) >= Len(p) /\ SubSeq(s, 1, Len(p)) = p

Contains(s, sub) ==
    \E i \in 1..(Len(s) - Len(sub) + 1) : SubSeq(s, i, i + Len(sub) - 1) = sub

NoDuplicates(s) == \A i, j \in 1..Len(s) : s[i] = s[j] => i = j

RECURSIVE Flatten(_)
Flatten(ss) == IF Len(ss) = 0 THEN << >> ELSE ss[1] \o Flatten(Tail(ss))

CeilDiv(k, n) == (k + n - 1) \div n

NumIds == Len(stdin)

NumWidgets == Len(widgets)

NumLanguages == Len(languages)

RequestsDone == prog = "requests" /\ lpc = "done"

(* the number of requests is the product of the three lengths *)
CountIsProduct == Len(collected) = NumIds * NumWidgets * NumLanguages

(* the output is a sequence of blocks, one per identifier position, in the *)
(* order of the identifiers: the i-th entry is a request of identifier     *)
(* number (i-1) div (W*L) + 1                                              *)
GroupedByIdentifier ==
    \A i \in 1..Len(collected) :
        LET p == ((i - 1) \div (NumWidgets * NumLanguages)) + 1
        IN  /\ p <= NumIds
            /\ HasPrefix(collected[i],
                         << "/", "h", "o", "t", "e", "l", "s", "/" >>
                             \o TyIds[p] \o << "/" >>)

(* inputs whose combinations cannot format to the same string *)
UnambiguousInputs ==
    /\ NoDuplicates(TyIds) /\ NoDuplicates(widgets) /\ NoDuplicates(languages)
    /\ \A i \in 1..NumIds : ~ Contains(TyIds[i], << "/" >>)
    /\ \A w \in 1..NumWidgets :
          ~ Contains(widgets[w],
                     << ".", "j", "s", "o", "n", "?", "l", "a", "n", "g", "=" >>)

(* C1, as stated: for non-empty identifiers, widgets and languages,        *)
(* create_requests produces len(ids) * len(widgets) * len(languages)       *)
(* request strings, pairwise distinct, all entries of one identifier       *)
(* before all entries of the next.                                         *)
C1_AlwaysDistinct ==
    RequestsDone =>
        /\ CountIsProduct
        /\ NoDuplicates(collected)
        /\ GroupedByIdentifier

(* C1, amended: the count and the grouping by identifier hold for all      *)
(* non-empty inputs; the strings are pairwise distinct when identifiers,   *)
(* widgets and languages are each free of duplicates, no identifier        *)
(* contains "/" and no widget contains ".json?lang=".                      *)
C1_CountGroupedDistinctIfUnambiguous ==
    RequestsDone =>
        /\ CountIsProduct
        /\ GroupedByIdentifier
        /\ (UnambiguousInputs => NoDuplicates(collected))

C1_Witness ==
    /\ RequestsDone /\ UnambiguousInputs
    /\ NumIds >= 2 /\ NumWidgets >= 2 /\ NumLanguages >= 2
    /\ Len(collected) = 8

(* C2: the i-th output (0-based) of create_requests is                     *)
(* "/hotels/{id}/{widget}.json?lang={language}" built from                 *)
(* ids[i div (W*L)], widgets[(i div L) mod W] and languages[i mod L], and  *)
(* every position triple is emitted exactly once.                          *)
C2_LexicographicOrder ==
    /\ prog = "requests" =>
          \A n \in 1..Len(collected) :
              LET i == n - 1
                  W == NumWidgets
                  L == NumLanguages
              IN  collected[n] =
                      << "/", "h", "o", "t", "e", "l", "s", "/" >>
                      \o TyIds[(i \div (W * L)) + 1]
                      \o << "/" >>
                      \o widgets[((i \div L) % W) + 1]
                      \o << ".", "j", "s", "o", "n", "?", "l", "a", "n", "g", "=" >>
                      \o languages[(i % L) + 1]
    /\ RequestsDone => Len(collected) = NumIds * NumWidgets * NumLanguages

C2_Witness ==
    /\ RequestsDone
    /\ NumIds = 2 /\ NumWidgets = 2 /\ NumLanguages = 2
    /\ widgets[1] # widgets[2] /\ languages[1] # languages[2]
    /\ TyIds[1] # TyIds[2]

BatchDone == prog = "doctest" /\ lpc = "done"

(* C3: for a finite input of length k and a positive batch_size n, batch   *)
(* yields ceil(k/n) chunks, none empty, all of n elements except possibly  *)
(* the last, which has 1..n; empty input yields no chunk, n = 1 yields k   *)
(* singletons, and batch(range(7), 3) yields [[0,1,2],[3,4,5],[6]].        *)
C3_ChunkSizes ==
    (BatchDone /\ batch_size > 0) =>
        /\ Len(collected) = CeilDiv(Len(iterable), batch_size)
        /\ \A c \in 1..Len(collected) :
              /\ Len(collected[c]) >= 1
              /\ Len(collected[c]) <= batch_size
              /\ c < Len(collected) => Len(collected[c]) = batch_size
        /\ Len(iterable) = 0 => collected = << >>
        /\ batch_size = 1 =>
              /\ Len(collected) = Len(iterable)
              /\ \A c \in 1..Len(collected) : collected[c] = << iterable[c] >>
        /\ (iterable = << 0, 1, 2, 3, 4, 5, 6 >> /\ batch_size = 3) =>
              collected = << << 0, 1, 2 >>, << 3, 4, 5 >>, << 6 >> >>

C3_Witness ==
    /\ BatchDone /\ batch_size = 3
    /\ iterable = << 0, 1, 2, 3, 4, 5, 6 >>
    /\ Len(collected) = 3

(* C4: for a finite input and a positive batch_size, the chunks of batch,  *)
(* concatenated in the order they are yielded, are the input: nothing is   *)
(* lost, duplicated or reordered.                                          *)
C4_ConcatenationIsInput ==
    (prog = "doctest" /\ batch_size > 0) =>
        /\ Flatten(chunks) = SubSeq(iterable, 1, Len(Flatten(chunks)))
        /\ BatchDone => Flatten(collected) = iterable

C4_Witness ==
    /\ BatchDone /\ batch_size = 2
    /\ iterable = << 1, 0, 1 >>
    /\ collected = << << 1, 0 >>, << 1 >> >>

(* C9: batch called with batch_size <= 0 is rejected before it yields any  *)
(* chunk.                                                                  *)
C9_NonPositiveYieldsNothing ==
    (prog = "doctest" /\ batch_size <= 0) => Len(chunks) = 0

---------------------------------------------------------------------------
(* Properties of the script *)

(* the loop head is reached again: the last batch received is reported *)
BatchHandled == prog = "main" /\ mpc = "for" /\ Len(codes) >= 1

(* what the current batch has put on stdout and in the log *)
OutPart == SubSeq(stdout, out_mark + 1, Len(stdout))

LogPart == SubSeq(log, log_mark + 1, Len(log))

(* number of batches whose POST and reporting are over *)
Handled == IF mpc \in { "check", "zip" } THEN Len(codes) - 1 ELSE Len(codes)

(* the "Ok: <request>" lines of the first n pairs, in order *)
RECURSIVE OkLinesOf(_, _, _)
OkLinesOf(reqs, resps, n) ==
    IF n = 0 THEN << >>
    ELSE OkLinesOf(reqs, resps, n - 1)
         \o (IF resps[n] = 200
             THEN << << "O", "k", ":", " " >> \o reqs[n] >>
             ELSE << >>)

(* the per-request warnings of the first n pairs, in order *)
RECURSIVE WarningsOf(_, _, _)
WarningsOf(reqs, resps, n) ==
    IF n = 0 THEN << >>
    ELSE WarningsOf(reqs, resps, n - 1)
         \o (IF resps[n] # 200
             THEN << WidgetWarning(reqs[n], resps[n]) >>
             ELSE << >>)

(* C5: when the outer code is 200 and the response list is as long as the  *)
(* batch, every request whose paired response has code 200 gives exactly   *)
(* one "Ok: <request>" line on stdout, in the order of the batch.          *)
C5_OkLinesInOrder ==
    (/\ BatchHandled
     /\ bulk_res.code = 200
     /\ Len(bulk_res.response_list) = Len(request_list)) =>
        OutPart = OkLinesOf(request_list, bulk_res.response_list, Len(request_list))

C5_Witness ==
    /\ BatchHandled /\ bulk_res.code = 200
    /\ Len(request_list) = 2
    /\ bulk_res.response_list = << 200, 200 >>
    /\ Len(OutPart) = 2

(* C6: when the outer code is not 200, the batch produces no per-request   *)
(* line (no Ok line, no per-request warning) and exactly one warning       *)
(* naming the outer code; the run goes on: it ends only when batch is      *)
(* exhausted, every chunk having been posted.                              *)
C6_FailedBatchSkipped ==
    /\ (BatchHandled /\ bulk_res.code # 200) =>
          /\ OutPart = << >>
          /\ LogPart = << BulkWarning(bulk_res.code) >>
    /\ (prog = "main" /\ mpc = "done") =>
          /\ bpc = "done"
          /\ Len(codes) = Len(chunks)

C6_Witness ==
    /\ BatchHandled
    /\ Len(codes) = 2 /\ codes[1] = 500
    /\ Len(log) >= 2 /\ log[2] = BulkWarning(500)

(* C7: in a batch whose outer code is 200, a request whose paired response *)
(* has another code gives exactly one warning naming the request and the   *)
(* code and no Ok line, and leaves the other requests alone: each paired   *)
(* request gets the outcome its own response code decides.                 *)
C7_RequestFailureIsLocal ==
    (BatchHandled /\ bulk_res.code = 200) =>
        LET n == Min(Len(request_list), Len(bulk_res.response_list))
        IN  /\ LogPart = WarningsOf(request_list, bulk_res.response_list, n)
            /\ OutPart = OkLinesOf(request_list, bulk_res.response_list, n)
            /\ Len(LogPart) + Len(OutPart) = n

C7_Witness ==
    /\ BatchHandled /\ bulk_res.code = 200
    /\ Len(request_list) = 2
    /\ bulk_res.response_list = << 404, 200 >>
    /\ LogPart = << WidgetWarning(request_list[1], 404) >>
    /\ Len(OutPart) = 1

(* C8: batch and the script are lazy.  batch yields its j-th full chunk    *)
(* having pulled exactly j * batch_size elements; no request of batch j+1  *)
(* is generated before batch j is posted and reported; a line of stdin is  *)
(* read only when a request of its identifier is due, and stdin is read    *)
(* front to back, no line twice.                                           *)
C8_LazyPipeline ==
    prog = "main" =>
        /\ bpc = "yielded" => Len(pulled) = Len(chunks) * batch_size
        /\ Len(pulled) <= (Len(chunks) + 1) * batch_size
        /\ Len(pulled) <= Len(yielded) /\ Len(yielded) <= Len(pulled) + 1
        /\ Len(yielded) <= (Handled + 1) * batch_size
        /\ stdin_pos <= Len(stdin)
        /\ reads = [i \in 1..stdin_pos |-> i]
        /\ stdin_pos >= 1 =>
              Len(yielded) >= (stdin_pos - 1) * NumWidgets * NumLanguages

C8_Witness ==
    /\ prog = "main" /\ bpc = "yielded" /\ turn = "main"
    /\ Len(chunks) = 2 /\ Len(pulled) = 4
    /\ Handled = 1

(* C10: when the outer code is 200 and the response list and the batch     *)
(* differ in length, exactly min(len(batch), len(response_list)) outcomes  *)
(* are reported, for the first requests of the batch in order; the other   *)
(* requests get no outcome, and nothing reports the mismatch.              *)
C10_MismatchTruncates ==
    (/\ BatchHandled
     /\ bulk_res.code = 200
     /\ Len(bulk_res.response_list) # Len(request_list)) =>
        LET n == Min(Len(request_list), Len(bulk_res.response_list))
        IN  /\ zi = n
            /\ Len(OutPart) + Len(LogPart) = n
            /\ \A o \in 1..Len(OutPart) :
                  \E r \in 1..n : /\ bulk_res.response_list[r] = 200
                                  /\ OutPart[o] = << "O", "k", ":", " " >> \o request_list[r]
            /\ \A w \in 1..Len(LogPart) :
                  \E r \in 1..n : LogPart[w] = WidgetWarning(request_list[r],
                                                             bulk_res.response_list[r])
            /\ Len(OutPart) = Cardinality({ r \in 1..n : bulk_res.response_list[r] = 200 })

C10_Witness ==
    /\ BatchHandled /\ bulk_res.code = 200
    /\ Len(request_list) = 2
    /\ bulk_res.response_list = << 200 >>
    /\ OutPart = << << "O", "k", ":", " " >> \o request_list[1] >>
    /\ LogPart = << >>

============================================================================
